---- MODULE Spec2Model ----
(***************************************************************************)
(* State-machine model of the two browser-automation tool servers          *)
(* (mcp_server_aistudio, mcp_server_v0deployer).  One tool call (or CLI    *)
(* command) runs at a time; every await of the Python code that can take   *)
(* time, observe the page or raise is a step of the machine.               *)
(*                                                                         *)
(* Time is counted in whole seconds on `clock`, which is the wall clock    *)
(* relative to the start of the running call.  A timed suspend of d        *)
(* seconds advances the clock by d plus a scheduling lag; a probe of the   *)
(* page takes between 0 and MaxProbeTime seconds.                          *)
(***************************************************************************)
EXTENDS Integers, Sequences, FiniteSets, TLC

\* ---------------------------------------------------------------- bounds
MaxTimeout == 7      \* largest timeout_seconds argument tried
MaxProbeTime == 1    \* longest time one visibility check takes
MaxLag == 1          \* largest overshoot of one timed suspend
MaxCancelAt == 1     \* latest second of an await at which a cancel lands
MaxTasks == 2        \* tool calls that may be in progress at the same time

\* ------------------------------------------------------ program constants
GEMINI_IMPLEMENTATION_WAIT == 90
VERIFICATION_RETRY_WAIT == 3
CREATE_MAX_WAIT == 600
CREATE_POLL_SLEEP == 5
FINISHED_SETTLE_SLEEP == 3

\* timeout_seconds arguments a caller may pass (an integer, schema of the tool)
TimeoutValues == 0..MaxTimeout

\* the probe counter saturates here; the loop never gets that far
MaxProbes == MaxTimeout + 3

VARIABLES
    pc,               \* position of the running call
    tool,             \* name of the tool being executed ("none" when idle)
    result,           \* the result dictionary built so far / returned
    escaped,          \* TRUE when call_tool ended by raising
    clock,            \* seconds since the call started
    start_time,       \* start_time of the running poll loop
    elapsed,          \* the poll loop's local variable `elapsed`
    timeout_seconds,  \* the poll loop's argument
    probes,           \* number of probe invocations of this poll loop
    raisedAt,         \* index of the first probe call that raised, 0 if none
    lastProbe,        \* clock - start_time at the latest probe invocation
    waitExit,         \* how wait_for_gemini_implementation ended
    inFlight,         \* probes issued whose answer has not come back
    suspends,         \* timed suspends of the loop since the latest probe
    again,            \* this wait call follows another one at once
    auth,             \* which storage-state files exist on disk
    session,          \* the browser, its context and its open pages
    cause,            \* why the running step failed ("none" if it did not)
    nested,           \* statuses of the step results a workflow collected
    loggedIn,         \* the authenticated page was observed by this login
    viewArg,          \* the `view` argument of v0_deploy
    cpStart,          \* start_time of the create-project loop
    url,              \* what page.url shows: "temp" or "drive"
    cpExit,           \* how the create-project loop was left
    cpSeen,           \* what the latest create-project iteration saw
    stepResult,       \* the result of the step that ended v0_deploy early
    pubTrace,         \* what publish_changes did and which result it built
    exitCode,         \* what the CLI command returned (-1 while it runs)
    task,             \* concurrent tool calls: position, tool, page handle
    usedBy            \* for every page handle, the tasks that acted on it

\* the state of the call that runs when calls come one at a time
callVars == <<pc, tool, result, escaped, clock, start_time, elapsed,
              timeout_seconds, probes, raisedAt, lastProbe, waitExit,
              inFlight, suspends, again, auth, session, cause, nested,
              loggedIn, viewArg, cpStart, url, cpExit>>

\* what is kept of a call's course for the questions asked about it
traceVars == <<cpSeen, stepResult, pubTrace, exitCode>>

\* the calls that run side by side
taskVars == <<task, usedBy>>

vars == <<callVars, traceVars, taskVars>>

envVars == <<auth, session>>

flowVars == <<cause, nested, loggedIn, viewArg>>

cpVars == <<cpStart, url, cpExit>>

pollVars == <<clock, start_time, elapsed, timeout_seconds, probes, raisedAt,
              lastProbe, waitExit, inFlight, suspends, again>>

\* the poll loop's variables without the clock
loopVars == <<start_time, elapsed, timeout_seconds, probes, raisedAt,
              lastProbe, waitExit, inFlight, suspends, again>>

\* what no step outside the two polling loops touches
frame == <<tool, escaped, viewArg, pollVars, cpVars>>

\* ----------------------------------------------------------- result dicts
NoResult == [status |-> "none", error |-> "", duration |-> -1]

Result(s, e, d) == [status |-> s, error |-> e, duration |-> d]

\* ------------------------------------------------------------------ tools
AIStudioTools == {"aistudio_login", "aistudio_create_repo",
                  "aistudio_commit_and_deploy", "aistudio_clone_repository",
                  "aistudio_wait_for_implementation"}

Min(a, b) == IF a < b THEN a ELSE b

\* ---------------------------------------------------------------- browser
Closed == [browser |-> FALSE, context |-> FALSE, pages |-> 0]

NoNested == [pull |-> "none", publish |-> "none", view |-> "none",
             commit |-> "none", deployment |-> "none"]

\* nothing seen yet by the create-project loop
NoSight == [err |-> FALSE, done |-> FALSE]

\* ------------------------------------------------------- concurrent calls
Tasks == 1..MaxTasks

\* a task that runs no call: its locals context and page are unset.  A
\* handle is named after the task whose call created the object.
NoTask == [at |-> "idle", name |-> "none", context |-> 0, page |-> 0]

Init ==
    /\ pc = "idle"
    /\ tool = "none"
    /\ result = NoResult
    /\ escaped = FALSE
    /\ clock = 0
    /\ start_time = 0
    /\ elapsed = 0
    /\ timeout_seconds = 0
    /\ probes = 0
    /\ raisedAt = 0
    /\ lastProbe = -1
    /\ waitExit = "none"
    /\ inFlight = 0
    /\ suspends = 0
    /\ again = FALSE
    /\ auth \in [aistudio : BOOLEAN, v0 : BOOLEAN]
    /\ session = Closed
    /\ cause = "none"
    /\ nested = NoNested
    /\ loggedIn = FALSE
    /\ viewArg = FALSE
    /\ cpStart = 0
    /\ url = "temp"
    /\ cpExit = "none"
    /\ cpSeen = NoSight
    /\ stepResult = NoResult
    /\ pubTrace = <<>>
    /\ exitCode = -1
    /\ task = [t \in Tasks |-> NoTask]
    /\ usedBy = [p \in Tasks |-> {}]

\* ---------------------------------------------------------------------
\* mcp_server_aistudio/server.py: call_tool
\* ---------------------------------------------------------------------
\* where the branch of a tool name begins
AIStudioEntry(name) ==
    CASE name = "aistudio_login" -> "al_launch"
      [] name = "aistudio_create_repo" -> "cr_auth"
      [] name = "aistudio_commit_and_deploy" -> "cd_open"
      [] name = "aistudio_clone_repository" -> "cl_run"
      [] name = "aistudio_wait_for_implementation" -> "wt_open"
      [] OTHER -> "ct_return"

\* lines 601-666: the dispatch on the tool name.  A required argument that
\* is missing raises KeyError in the branch; an unknown name gets an error
\* result.
AIStudioCallTool ==
    /\ pc = "idle"
    /\ \E name \in AIStudioTools \cup {"unknown_tool"},
          argsOk \in BOOLEAN, t \in TimeoutValues :
          /\ tool' = name
          /\ timeout_seconds' =
                 IF name = "aistudio_wait_for_implementation" THEN t ELSE 0
          /\ IF name \notin AIStudioTools
                THEN /\ result' = Result("error", "Unknown tool", -1)
                     /\ cause' = "none"
                     /\ pc' = "ct_return"
                ELSE IF ~argsOk /\ name # "aistudio_login"
                THEN /\ result' = result
                     /\ cause' = "KeyError"
                     /\ pc' = "ct_except"
                ELSE /\ result' = result
                     /\ cause' = "none"
                     /\ pc' = AIStudioEntry(name)
    /\ UNCHANGED <<escaped, clock, start_time, elapsed, probes, raisedAt,
                   lastProbe, waitExit, inFlight, suspends, again, envVars,
                   nested, loggedIn, viewArg, cpVars>>
    /\ UNCHANGED <<taskVars, traceVars>>

\* lines 650-654: launch, new_context(storage_state), new_page, goto.  Any
\* of them may raise, and new_context does when the state file is missing;
\* leaving the `async with` block stops Playwright and its browser.
WaitToolOpen ==
    /\ pc = "wt_open"
    /\ \E ok \in BOOLEAN :
          /\ ok => auth.aistudio
          /\ IF ok
                THEN /\ session' = [browser |-> TRUE, context |-> TRUE,
                                    pages |-> 1]
                     /\ cause' = cause
                     /\ pc' = "w_init"
                ELSE /\ session' = Closed
                     /\ cause' = "Exception"
                     /\ pc' = "ct_except"
    /\ UNCHANGED <<frame, result, auth, nested, loggedIn>>
    /\ UNCHANGED <<taskVars, traceVars>>

\* ---------------------------------------------------------------------
\* AIStudioAutomation.wait_for_gemini_implementation
\* ---------------------------------------------------------------------
\* a suspend that returns at once, without letting time advance
SleepReturnsAtOnce(d, lag) == clock

\* asyncio.sleep(d): the clock after the suspend
Sleep(d, lag) == clock + d + lag

\* a loop that starts probing at once, without the initial sleep
InitialWaitSkipped ==
    /\ pc = "w_init"
    /\ clock' = clock
    /\ start_time' = clock
    /\ elapsed' = 0
    /\ pc' = "w_head"
    /\ UNCHANGED <<again, tool, result, escaped, timeout_seconds, probes,
                   raisedAt, lastProbe, waitExit, inFlight, suspends>>
    /\ UNCHANGED <<envVars, flowVars, cpVars>>
    /\ UNCHANGED <<taskVars, traceVars>>

\* a loop that keeps the elapsed time it finds instead of starting at 0
InitialWaitKeepsElapsed ==
    /\ pc = "w_init"
    /\ \E lag \in 0..MaxLag :
          /\ clock' = Sleep(GEMINI_IMPLEMENTATION_WAIT, lag)
          /\ start_time' = clock'
    /\ elapsed' = elapsed
    /\ pc' = "w_head"
    /\ UNCHANGED <<again, tool, result, escaped, timeout_seconds, probes,
                   raisedAt, lastProbe, waitExit, inFlight, suspends>>
    /\ UNCHANGED <<envVars, flowVars, cpVars>>
    /\ UNCHANGED <<taskVars, traceVars>>

\* lines 663-668: initial sleep, then start_time = now, elapsed = 0
InitialWait ==
    /\ pc = "w_init"
    /\ \E lag \in 0..MaxLag :
          /\ clock' = Sleep(GEMINI_IMPLEMENTATION_WAIT, lag)
          /\ start_time' = clock'
    /\ elapsed' = 0
    /\ pc' = "w_head"
    /\ UNCHANGED <<again, tool, result, escaped, timeout_seconds, probes,
                   raisedAt, lastProbe, waitExit, inFlight, suspends>>
    /\ UNCHANGED <<envVars, flowVars, cpVars>>
    /\ UNCHANGED <<taskVars, traceVars>>

\* the deadline test with the boundary on the wrong side
LoopContinuesInclusive(e, t) == e <= t

\* line 670: the while condition
LoopContinues(e, t) == e < t

LoopTest ==
    /\ pc = "w_head"
    /\ pc' = IF LoopContinues(elapsed, timeout_seconds) THEN "w_probe"
                                                        ELSE "w_timeout"
    /\ UNCHANGED <<tool, result, escaped, pollVars>>
    /\ UNCHANGED <<envVars, flowVars, cpVars>>
    /\ UNCHANGED <<taskVars, traceVars>>

\* lines 673-674: the probe is issued: is_visible() is called and awaited
ProbeIssued ==
    /\ pc = "w_probe"
    /\ lastProbe' = clock - start_time
    /\ probes' = Min(probes + 1, MaxProbes)
    /\ inFlight' = inFlight + 1
    /\ suspends' = 0
    /\ pc' = "w_flight"
    /\ UNCHANGED <<again, tool, result, escaped, clock, start_time, elapsed,
                   timeout_seconds, raisedAt, waitExit>>
    /\ UNCHANGED <<envVars, flowVars, cpVars>>
    /\ UNCHANGED <<taskVars, traceVars>>

\* the awaited probe comes back after d seconds
ProbeAnswered(d) ==
    /\ clock' = clock + d
    /\ inFlight' = inFlight - 1

\* lines 676-684: the Stop button is not visible
ProbeDone ==
    /\ pc = "w_flight"
    /\ \E d \in 0..MaxProbeTime : ProbeAnswered(d)
    /\ result' = Result("complete", "", clock' - start_time)
    /\ waitExit' = "returned"
    /\ pc' = "wt_close"
    /\ UNCHANGED <<again, tool, escaped, start_time, elapsed, timeout_seconds,
                   probes, raisedAt, lastProbe, suspends>>
    /\ UNCHANGED <<envVars, flowVars, cpVars>>
    /\ UNCHANGED <<taskVars, traceVars>>

\* a loop that tests the deadline again without suspending
ProbeProcessingNoSuspend ==
    /\ pc = "w_flight"
    /\ \E d \in 0..MaxProbeTime : ProbeAnswered(d)
    /\ elapsed' = clock' - start_time
    /\ pc' = "w_head"
    /\ UNCHANGED <<again, tool, result, escaped, start_time, timeout_seconds,
                   probes, raisedAt, lastProbe, waitExit, suspends>>
    /\ UNCHANGED <<envVars, flowVars, cpVars>>
    /\ UNCHANGED <<taskVars, traceVars>>

\* lines 686-687: the Stop button is visible
ProbeProcessing ==
    /\ pc = "w_flight"
    /\ \E d \in 0..MaxProbeTime : ProbeAnswered(d)
    /\ pc' = "w_retry"
    /\ UNCHANGED <<again, tool, result, escaped, start_time, elapsed,
                   timeout_seconds, probes, raisedAt, lastProbe, waitExit,
                   suspends>>
    /\ UNCHANGED <<envVars, flowVars, cpVars>>
    /\ UNCHANGED <<taskVars, traceVars>>

\* a handler that gives up on the first failure and returns an error outcome
ProbeRaisesFails ==
    /\ pc = "w_flight"
    /\ \E d \in 0..MaxProbeTime : ProbeAnswered(d)
    /\ raisedAt' = IF raisedAt = 0 THEN probes ELSE raisedAt
    /\ result' = Result("error", "probe failed", clock' - start_time)
    /\ waitExit' = "returned"
    /\ pc' = "wt_close"
    /\ UNCHANGED <<again, tool, escaped, start_time, elapsed, timeout_seconds,
                   probes, lastProbe, suspends>>
    /\ UNCHANGED <<envVars, flowVars, cpVars>>
    /\ UNCHANGED <<taskVars, traceVars>>

\* a loop without the try block: the failure leaves the function
ProbeRaisesEscapes ==
    /\ pc = "w_flight"
    /\ \E d \in 0..MaxProbeTime : ProbeAnswered(d)
    /\ raisedAt' = IF raisedAt = 0 THEN probes ELSE raisedAt
    /\ waitExit' = "raised"
    /\ pc' = "ct_except"
    /\ UNCHANGED <<again, tool, result, escaped, start_time, elapsed,
                   timeout_seconds, probes, lastProbe, suspends>>
    /\ UNCHANGED <<envVars, flowVars, cpVars>>
    /\ UNCHANGED <<taskVars, traceVars>>

\* lines 691-692: the check raised; the handler is entered
ProbeRaises ==
    /\ pc = "w_flight"
    /\ \E d \in 0..MaxProbeTime : ProbeAnswered(d)
    /\ raisedAt' = IF raisedAt = 0 THEN probes ELSE raisedAt
    /\ pc' = "w_except"
    /\ UNCHANGED <<again, tool, result, escaped, start_time, elapsed,
                   timeout_seconds, probes, lastProbe, waitExit, suspends>>
    /\ UNCHANGED <<envVars, flowVars, cpVars>>
    /\ UNCHANGED <<taskVars, traceVars>>

\* lines 688-689: sleep, then elapsed = now - start_time
RetrySleep ==
    /\ pc = "w_retry"
    /\ \E lag \in 0..MaxLag : clock' = Sleep(VERIFICATION_RETRY_WAIT, lag)
    /\ elapsed' = clock' - start_time
    /\ suspends' = suspends + 1
    /\ pc' = "w_head"
    /\ UNCHANGED <<again, tool, result, escaped, start_time, timeout_seconds,
                   probes, raisedAt, lastProbe, waitExit, inFlight>>
    /\ UNCHANGED <<envVars, flowVars, cpVars>>
    /\ UNCHANGED <<taskVars, traceVars>>

\* a handler that goes back to the deadline test without suspending
ExceptSleepSkipped ==
    /\ pc = "w_except"
    /\ clock' = clock
    /\ elapsed' = clock' - start_time
    /\ suspends' = suspends
    /\ pc' = "w_head"
    /\ UNCHANGED <<again, tool, result, escaped, start_time, timeout_seconds,
                   probes, raisedAt, lastProbe, waitExit, inFlight>>
    /\ UNCHANGED <<envVars, flowVars, cpVars>>
    /\ UNCHANGED <<taskVars, traceVars>>

\* lines 693-694: the handler sleeps and refreshes elapsed as well
ExceptSleep ==
    /\ pc = "w_except"
    /\ \E lag \in 0..MaxLag : clock' = Sleep(VERIFICATION_RETRY_WAIT, lag)
    /\ elapsed' = clock' - start_time
    /\ suspends' = suspends + 1
    /\ pc' = "w_head"
    /\ UNCHANGED <<again, tool, result, escaped, start_time, timeout_seconds,
                   probes, raisedAt, lastProbe, waitExit, inFlight>>
    /\ UNCHANGED <<envVars, flowVars, cpVars>>
    /\ UNCHANGED <<taskVars, traceVars>>

\* lines 696-701: the loop condition failed
TimeoutReturn ==
    /\ pc = "w_timeout"
    /\ result' = Result("timeout", "did not complete", timeout_seconds)
    /\ waitExit' = "returned"
    /\ pc' = "wt_close"
    /\ UNCHANGED <<again, tool, escaped, clock, start_time, elapsed,
                   timeout_seconds, probes, raisedAt, lastProbe, inFlight,
                   suspends>>
    /\ UNCHANGED <<envVars, flowVars, cpVars>>
    /\ UNCHANGED <<taskVars, traceVars>>

\* The task running the wait tool is cancelled from outside while the
\* coroutine is parked at an await: the initial sleep (line 664), a probe
\* (673-674) or a retry sleep (688, 693), t seconds into it.  asyncio raises
\* CancelledError at that await.  It is no subclass of Exception, so neither
\* the loop's handler (691) nor call_tool's (671) catches it: the function
\* returns nothing, and leaving the `async with` block of server.py 650
\* stops Playwright and its browser.
CancelWait ==
    /\ pc \in {"w_init", "w_flight", "w_retry", "w_except"}
    /\ \E t \in 0..MaxCancelAt : clock' = clock + t
    /\ cause' = IF pc = "w_flight" THEN "CancelledError: probe"
                                   ELSE "CancelledError: sleep"
    /\ inFlight' = 0
    /\ waitExit' = "cancelled"
    /\ session' = Closed
    /\ pc' = "cancelled"
    /\ UNCHANGED <<again, tool, result, escaped, start_time, elapsed,
                   timeout_seconds, probes, raisedAt, lastProbe, suspends,
                   auth, nested, loggedIn, viewArg, cpVars>>
    /\ UNCHANGED <<taskVars, traceVars>>

\* server.py lines 662-663: context.close(), browser.close(); may raise
WaitToolClose ==
    /\ pc = "wt_close"
    /\ \E ok \in BOOLEAN :
          /\ pc' = IF ok THEN "ct_return" ELSE "ct_except"
          /\ cause' = IF ok THEN cause ELSE "Exception"
    /\ session' = Closed
    /\ UNCHANGED <<frame, result, auth, nested, loggedIn>>
    /\ UNCHANGED <<taskVars, traceVars>>

\* ---------------------------------------------------------------------
\* aistudio_login: server.py 605-617 and AIStudioAutomation.login_aistudio
\* ---------------------------------------------------------------------
\* automation.py 83-95: start Playwright, launch the persistent context,
\* open AI Studio.  Nothing closes the context when goto raises.
LoginLaunch ==
    /\ pc = "al_launch"
    /\ \E ok \in BOOLEAN, opened \in BOOLEAN :
          /\ ok => opened
          /\ session' = IF opened
                           THEN [browser |-> FALSE, context |-> TRUE,
                                 pages |-> 1]
                           ELSE Closed
          /\ cause' = IF ok THEN cause ELSE "Exception"
          /\ pc' = IF ok THEN "al_wait" ELSE "ct_except"
    /\ UNCHANGED <<frame, result, auth, nested, loggedIn>>
    /\ UNCHANGED <<taskVars, traceVars>>

\* automation.py 102-115: wait up to five minutes for the signed-in page;
\* a wait that expires is logged and the function returns all the same
LoginAwaitAuth ==
    /\ pc = "al_wait"
    /\ \E seen \in BOOLEAN : loggedIn' = seen
    /\ pc' = "al_save"
    /\ UNCHANGED <<frame, result, envVars, cause, nested>>
    /\ UNCHANGED <<taskVars, traceVars>>

\* server.py 609: context.storage_state(path=...) writes the state file
LoginSaveState ==
    /\ pc = "al_save"
    /\ \E ok \in BOOLEAN :
          /\ auth' = IF ok THEN [auth EXCEPT !.aistudio = TRUE] ELSE auth
          /\ cause' = IF ok THEN cause ELSE "Exception"
          /\ pc' = IF ok THEN "al_close" ELSE "ct_except"
    /\ UNCHANGED <<frame, result, session, nested, loggedIn>>
    /\ UNCHANGED <<taskVars, traceVars>>

\* server.py 610-617: context.close(), page.context.browser.close(), then
\* the success result; either close may raise
LoginClose ==
    /\ pc = "al_close"
    /\ session' = Closed
    /\ \E ok \in BOOLEAN :
          /\ result' = IF ok THEN Result("success", "", -1) ELSE result
          /\ cause' = IF ok THEN cause ELSE "Exception"
          /\ pc' = IF ok THEN "ct_return" ELSE "ct_except"
    /\ UNCHANGED <<frame, auth, nested, loggedIn>>
    /\ UNCHANGED <<taskVars, traceVars>>

\* ---------------------------------------------------------------------
\* aistudio_create_repo: automation.py aistudio_create_github_repo
\* ---------------------------------------------------------------------
\* lines 737 and 748-750: the saved state must exist
RepoAuthCheck ==
    /\ pc = "cr_auth"
    /\ IF auth.aistudio
          THEN /\ result' = result
               /\ pc' = "cr_open"
          ELSE /\ result' = Result("error", "Not authenticated", -1)
               /\ pc' = "ct_return"
    /\ UNCHANGED <<frame, envVars, cause, nested, loggedIn>>
    /\ UNCHANGED <<taskVars, traceVars>>

\* lines 738-743: launch, new_context, open_github_panel
RepoOpen ==
    /\ pc = "cr_open"
    /\ \E ok \in BOOLEAN :
          /\ session' = IF ok THEN [browser |-> TRUE, context |-> TRUE,
                                    pages |-> 1]
                              ELSE Closed
          /\ cause' = IF ok THEN cause ELSE "Exception"
          /\ pc' = IF ok THEN "cr_form" ELSE "cr_except"
    /\ UNCHANGED <<frame, result, auth, nested, loggedIn>>
    /\ UNCHANGED <<taskVars, traceVars>>

\* what create_github_repo answers when the form went through (395-400)
RepoStatus(is_ready) == IF is_ready THEN "success" ELSE "pending"

\* AIStudioAutomation.create_github_repo, lines 363-408: fill the form,
\* click, wait, look for the commit prompt; an exception gives an error dict
RepoFillForm ==
    /\ pc = "cr_form"
    /\ \E raised \in BOOLEAN, is_ready \in BOOLEAN :
          result' = IF raised THEN Result("error", "Exception", -1)
                              ELSE Result(RepoStatus(is_ready), "", -1)
    /\ pc' = "cr_close"
    /\ UNCHANGED <<frame, envVars, cause, nested, loggedIn>>
    /\ UNCHANGED <<taskVars, traceVars>>

\* lines 745-747: close the context and the browser, return the result
RepoClose ==
    /\ pc = "cr_close"
    /\ session' = Closed
    /\ \E ok \in BOOLEAN :
          /\ cause' = IF ok THEN cause ELSE "Exception"
          /\ pc' = IF ok THEN "ct_return" ELSE "cr_except"
    /\ UNCHANGED <<frame, result, auth, nested, loggedIn>>
    /\ UNCHANGED <<taskVars, traceVars>>

\* lines 752-754
RepoExcept ==
    /\ pc = "cr_except"
    /\ result' = Result("error", cause, -1)
    /\ pc' = "ct_return"
    /\ UNCHANGED <<frame, envVars, cause, nested, loggedIn>>
    /\ UNCHANGED <<taskVars, traceVars>>

\* ---------------------------------------------------------------------
\* aistudio_commit_and_deploy: automation.py 777-810
\* ---------------------------------------------------------------------
\* lines 780-787: launch, new_context(storage_state), new_page, goto
DeployOpen ==
    /\ pc = "cd_open"
    /\ \E ok \in BOOLEAN :
          /\ ok => auth.aistudio
          /\ session' = IF ok THEN [browser |-> TRUE, context |-> TRUE,
                                    pages |-> 1]
                              ELSE Closed
          /\ cause' = IF ok THEN cause ELSE "Exception"
          /\ pc' = IF ok THEN "cd_commit" ELSE "cd_except"
    /\ UNCHANGED <<frame, result, auth, nested, loggedIn>>
    /\ UNCHANGED <<taskVars, traceVars>>

\* lines 790-792 and commit_to_github (435-471): a dict, never an exception
DeployCommit ==
    /\ pc = "cd_commit"
    /\ \E st \in {"success", "error"} :
          nested' = [nested EXCEPT !.commit = st]
    /\ pc' = "cd_deploy"
    /\ UNCHANGED <<frame, result, envVars, cause, loggedIn>>
    /\ UNCHANGED <<taskVars, traceVars>>

\* lines 795-797 and deploy_to_cloud_run (499-565)
DeployCloudRun ==
    /\ pc = "cd_deploy"
    /\ \E st \in {"success", "error"} :
          nested' = [nested EXCEPT !.deployment = st]
    /\ pc' = "cd_close"
    /\ UNCHANGED <<frame, result, envVars, cause, loggedIn>>
    /\ UNCHANGED <<taskVars, traceVars>>

\* lines 799-806: close, then the combined result
DeployClose ==
    /\ pc = "cd_close"
    /\ session' = Closed
    /\ \E ok \in BOOLEAN :
          /\ result' = IF ok THEN Result("success", "", -1) ELSE result
          /\ cause' = IF ok THEN cause ELSE "Exception"
          /\ pc' = IF ok THEN "ct_return" ELSE "cd_except"
    /\ UNCHANGED <<frame, auth, nested, loggedIn>>
    /\ UNCHANGED <<taskVars, traceVars>>

\* lines 808-810
DeployExcept ==
    /\ pc = "cd_except"
    /\ result' = Result("error", cause, -1)
    /\ pc' = "ct_return"
    /\ UNCHANGED <<frame, envVars, cause, nested, loggedIn>>
    /\ UNCHANGED <<taskVars, traceVars>>

\* ---------------------------------------------------------------------
\* aistudio_clone_repository: clone_repository_locally, lines 588-639
\* ---------------------------------------------------------------------
CloneRun ==
    /\ pc = "cl_run"
    /\ \E out \in {"cloned", "git failed", "no .git", "timed out",
                    "Exception"} :
          result' = IF out = "cloned" THEN Result("success", "", -1)
                                      ELSE Result("error", out, -1)
    /\ pc' = "ct_return"
    /\ UNCHANGED <<frame, envVars, cause, nested, loggedIn>>
    /\ UNCHANGED <<taskVars, traceVars>>

\* ---------------------------------------------------------------------
\* call_tool exits of the aistudio server (server.py 668-675)
\* ---------------------------------------------------------------------
\* lines 668-669: the result is serialised and returned
CallToolReturn ==
    /\ pc = "ct_return"
    /\ tool \in AIStudioTools \cup {"unknown_tool"}
    /\ pc' = "returned"
    /\ UNCHANGED <<frame, result, envVars, cause, nested, loggedIn>>
    /\ UNCHANGED <<taskVars, traceVars>>

\* a handler that logs the error and raises it again
CallToolReraises ==
    /\ pc = "ct_except"
    /\ tool \in AIStudioTools
    /\ escaped' = TRUE
    /\ pc' = "returned"
    /\ UNCHANGED <<tool, viewArg, pollVars, cpVars, result, envVars, cause,
                   nested, loggedIn>>
    /\ UNCHANGED <<taskVars, traceVars>>

\* lines 671-675: except Exception: an error result is returned
CallToolExcept ==
    /\ pc = "ct_except"
    /\ tool \in AIStudioTools
    /\ result' = Result("error", cause, -1)
    /\ pc' = "returned"
    /\ UNCHANGED <<frame, envVars, cause, nested, loggedIn>>
    /\ UNCHANGED <<taskVars, traceVars>>

\* ---------------------------------------------------------------------
\* mcp_server_v0deployer/server.py: call_tool
\* ---------------------------------------------------------------------
V0Tools == {"v0_login", "v0_git_pull", "v0_publish", "v0_view_app",
            "v0_deploy"}

\* lines 622-654: the dispatch on the tool name
V0CallTool ==
    /\ pc = "idle"
    /\ \E name \in V0Tools \cup {"unknown_v0_tool"},
          argsOk \in BOOLEAN, view \in BOOLEAN :
          /\ tool' = name
          /\ viewArg' = (name = "v0_deploy" /\ argsOk /\ view)
          /\ IF name \notin V0Tools
                THEN /\ result' = Result("error", "Unknown tool", -1)
                     /\ cause' = "none"
                     /\ pc' = "ct_return"
                ELSE IF ~argsOk /\ name # "v0_login"
                THEN /\ result' = result
                     /\ cause' = "KeyError"
                     /\ pc' = "ct_except"
                ELSE /\ result' = result
                     /\ cause' = "none"
                     /\ pc' = IF name = "v0_login" THEN "vl_launch"
                                                   ELSE "v0_auth"
    /\ UNCHANGED <<escaped, pollVars, envVars, nested, loggedIn, cpVars>>
    /\ UNCHANGED <<taskVars, traceVars>>

\* lines 656-657
V0CallToolReturn ==
    /\ pc = "ct_return"
    /\ tool \in V0Tools \cup {"unknown_v0_tool"}
    /\ pc' = "returned"
    /\ UNCHANGED <<frame, result, envVars, cause, nested, loggedIn>>
    /\ UNCHANGED <<taskVars, traceVars>>

\* lines 659-663
V0CallToolExcept ==
    /\ pc = "ct_except"
    /\ tool \in V0Tools
    /\ result' = Result("error", cause, -1)
    /\ pc' = "returned"
    /\ UNCHANGED <<frame, envVars, cause, nested, loggedIn>>
    /\ UNCHANGED <<taskVars, traceVars>>

\* ---------------------------------------------------------------------
\* v0deployer automation.py: the standalone functions v0_git_pull,
\* v0_publish, v0_view_app and v0_deploy share their opening and closing
\* ---------------------------------------------------------------------
\* a tool function that goes on without looking for the state file
V0AuthCheckSkipped ==
    /\ pc = "v0_auth"
    /\ result' = result
    /\ pc' = "v0_launch"
    /\ UNCHANGED <<frame, envVars, cause, nested, loggedIn>>
    /\ UNCHANGED <<taskVars, traceVars>>

\* lines 281-282, 312-313, 344-345, 377-378
V0AuthCheck ==
    /\ pc = "v0_auth"
    /\ IF auth.v0
          THEN /\ result' = result
               /\ pc' = "v0_launch"
          ELSE /\ result' = Result("error", "Not authenticated", -1)
               /\ pc' = "ct_return"
    /\ UNCHANGED <<frame, envVars, cause, nested, loggedIn>>
    /\ UNCHANGED <<taskVars, traceVars>>

\* the first step of the tool once the context is there
V0FirstStep(name) ==
    CASE name = "v0_publish" -> "pb_page"
      [] name = "v0_view_app" -> "vw_page"
      [] OTHER -> "gp_page"

\* lines 285-287, 316-318, 348-350, 381-383: launch and new_context
V0Launch ==
    /\ pc = "v0_launch"
    /\ \E ok \in BOOLEAN :
          /\ session' = IF ok THEN [browser |-> TRUE, context |-> TRUE,
                                    pages |-> 0]
                              ELSE Closed
          /\ cause' = IF ok THEN cause ELSE "Exception"
          /\ pc' = IF ok THEN V0FirstStep(tool) ELSE "v0_except"
    /\ UNCHANGED <<frame, result, auth, nested, loggedIn>>
    /\ UNCHANGED <<taskVars, traceVars>>

\* a tool function that returns the result and leaves the browser open
V0CloseSkipped ==
    /\ pc = "v0_close"
    /\ session' = session
    /\ cause' = cause
    /\ pc' = "ct_return"
    /\ UNCHANGED <<frame, result, auth, nested, loggedIn>>
    /\ UNCHANGED <<taskVars, traceVars>>

\* lines 291-293, 322-324, 354-356: close and return the step's result
V0Close ==
    /\ pc = "v0_close"
    /\ session' = Closed
    /\ \E ok \in BOOLEAN :
          /\ cause' = IF ok THEN cause ELSE "Exception"
          /\ pc' = IF ok THEN "ct_return" ELSE "v0_except"
    /\ UNCHANGED <<frame, result, auth, nested, loggedIn>>
    /\ UNCHANGED <<taskVars, traceVars>>

\* lines 295-297, 326-328, 358-360, 423-425; leaving the `async with`
\* block stops Playwright and its browser
V0Except ==
    /\ pc = "v0_except"
    /\ result' = Result("error", cause, -1)
    /\ session' = Closed
    /\ pc' = "ct_return"
    /\ UNCHANGED <<frame, auth, cause, nested, loggedIn>>
    /\ UNCHANGED <<taskVars, traceVars>>

\* context.new_page() at lines 130, 172, 233: outside the try block
NewPage(from, to) ==
    /\ pc = from
    /\ \E ok \in BOOLEAN :
          /\ session' = IF ok THEN [session EXCEPT !.pages = @ + 1]
                              ELSE session
          /\ cause' = IF ok THEN cause ELSE "Exception"
          /\ pc' = IF ok THEN to ELSE "v0_except"
    /\ UNCHANGED <<frame, result, auth, nested, loggedIn>>
    /\ UNCHANGED <<taskVars, traceVars>>

\* a step inside a try block: it goes on, or raises into the handler
TryStep(from, to, handler, outcomes) ==
    /\ pc = from
    /\ \E out \in outcomes \cup {"ok"} :
          /\ cause' = IF out = "ok" THEN cause ELSE out
          /\ pc' = IF out = "ok" THEN to ELSE handler
    /\ UNCHANGED <<frame, result, envVars, nested, loggedIn>>
    /\ UNCHANGED <<taskVars, traceVars>>

\* a step function that returns without closing its page
ClosePageLeavesOpen(from, to) ==
    /\ pc = from
    /\ pc' = to
    /\ UNCHANGED <<frame, result, envVars, cause, nested, loggedIn>>
    /\ UNCHANGED <<taskVars, traceVars>>

\* the finally clause: page.close(), then back to the caller
ClosePage(from, to) ==
    /\ pc = from
    /\ \E ok \in BOOLEAN :
          /\ session' = IF ok THEN [session EXCEPT !.pages = @ - 1]
                              ELSE session
          /\ cause' = IF ok THEN cause ELSE "Exception"
          /\ pc' = IF ok THEN to ELSE "v0_except"
    /\ UNCHANGED <<frame, result, auth, nested, loggedIn>>
    /\ UNCHANGED <<taskVars, traceVars>>

\* where a step function returns to
AfterStep(step) ==
    IF tool = "v0_deploy" THEN "dp_" \o step ELSE "v0_close"

\* ---------------------------------------------------------------------
\* V0Automation.git_pull_changes, lines 119-157
\* ---------------------------------------------------------------------
PullNewPage == NewPage("gp_page", "gp_nav")

\* lines 133-134: goto, wait for the 'Synced to main' button
PullNavigate ==
    TryStep("gp_nav", "gp_click", "gp_except",
            {"Timeout: Synced to main", "Exception"})

\* lines 137-140: the two clicks
PullClick == TryStep("gp_click", "gp_sync", "gp_except", {"Exception"})

\* lines 142-148: wait until 'Syncing Changes' is hidden, SYNC_WAIT at most
PullWaitSync ==
    /\ pc = "gp_sync"
    /\ \E out \in {"hidden", "Timeout: Syncing Changes", "Exception"} :
          /\ result' = IF out = "hidden" THEN Result("success", "", -1)
                                         ELSE result
          /\ cause' = IF out = "hidden" THEN cause ELSE out
          /\ pc' = IF out = "hidden" THEN "gp_finally" ELSE "gp_except"
    /\ UNCHANGED <<frame, envVars, nested, loggedIn>>
    /\ UNCHANGED <<taskVars, traceVars>>

\* a handler that reports an expired wait as a timeout
PullExceptClassifies ==
    /\ pc = "gp_except"
    /\ result' = IF cause = "Exception" THEN Result("error", cause, -1)
                                        ELSE Result("timeout", cause, -1)
    /\ pc' = "gp_finally"
    /\ UNCHANGED <<frame, envVars, cause, nested, loggedIn>>
    /\ UNCHANGED <<taskVars, traceVars>>

\* lines 150-155: except Exception
PullExcept ==
    /\ pc = "gp_except"
    /\ result' = Result("error", cause, -1)
    /\ pc' = "gp_finally"
    /\ UNCHANGED <<frame, envVars, cause, nested, loggedIn>>
    /\ UNCHANGED <<taskVars, traceVars>>

\* line 157
PullFinally == ClosePage("gp_finally", AfterStep("pull"))

\* ---------------------------------------------------------------------
\* V0Automation.publish_changes, lines 159-219
\* ---------------------------------------------------------------------
PubNewPage == NewPage("pb_page", "pb_nav")

\* lines 175-176: goto, wait for the 'Publish' button
PubNavigate ==
    TryStep("pb_nav", "pb_menu", "pb_except",
            {"Timeout: Publish", "Exception"})

\* lines 179-180: open the dropdown, wait DROPDOWN_WAIT
PubOpenDropdown == TryStep("pb_menu", "pb_choose", "pb_except", {"Exception"})

\* lines 182-210: which option of the dropdown is visible
PubChoose ==
    /\ pc = "pb_choose"
    /\ \E opt \in {"publish", "update", "neither", "Exception"} :
          /\ result' =
                CASE opt = "update" -> Result("success", "", -1)
                  [] opt = "neither" -> Result("error", "Could not find", -1)
                  [] OTHER -> result
          /\ cause' = IF opt = "Exception" THEN opt ELSE cause
          /\ pc' = CASE opt = "publish" -> "pb_click"
                      [] opt = "Exception" -> "pb_except"
                      [] OTHER -> "pb_finally"
          /\ pubTrace' = CASE opt = "update" -> Append(pubTrace, "already")
                            [] opt = "neither" ->
                                   Append(pubTrace, "not found")
                            [] OTHER -> pubTrace
    /\ UNCHANGED <<frame, envVars, nested, loggedIn>>
    /\ UNCHANGED <<taskVars, cpSeen, stepResult, exitCode>>

\* lines 187-189: click 'Publish Changes', wait for 'Publishing...'
PubClickPublish ==
    /\ pc = "pb_click"
    /\ \E out \in {"visible", "Timeout: Publishing visible", "Exception"},
          clicked \in BOOLEAN :
          /\ out # "Exception" => clicked
          /\ pubTrace' =
                CASE out = "visible" ->
                         pubTrace \o <<"click", "visible">>
                  [] clicked -> Append(pubTrace, "click")
                  [] OTHER -> pubTrace
          /\ cause' = IF out = "visible" THEN cause ELSE out
          /\ pc' = IF out = "visible" THEN "pb_wait" ELSE "pb_except"
    /\ UNCHANGED <<frame, result, envVars, nested, loggedIn>>
    /\ UNCHANGED <<taskVars, cpSeen, stepResult, exitCode>>

\* a wait that reports the publication when its deadline passes as well
PubWaitHiddenGivesUp ==
    /\ pc = "pb_wait"
    /\ \E out \in {"hidden", "Timeout: Publishing hidden", "Exception"} :
          /\ result' = IF out # "Exception" THEN Result("success", "", -1)
                                            ELSE result
          /\ pubTrace' = CASE out = "hidden" ->
                                   pubTrace \o <<"hidden", "published">>
                            [] out = "Exception" -> pubTrace
                            [] OTHER -> Append(pubTrace, "published")
          /\ cause' = IF out = "hidden" THEN cause ELSE out
          /\ pc' = IF out # "Exception" THEN "pb_finally" ELSE "pb_except"
    /\ UNCHANGED <<frame, envVars, nested, loggedIn>>
    /\ UNCHANGED <<taskVars, cpSeen, stepResult, exitCode>>

\* lines 190-196: wait until 'Publishing...' is hidden, PUBLISH_WAIT at most
PubWaitHidden ==
    /\ pc = "pb_wait"
    /\ \E out \in {"hidden", "Timeout: Publishing hidden", "Exception"} :
          /\ result' = IF out = "hidden" THEN Result("success", "", -1)
                                         ELSE result
          /\ pubTrace' = IF out = "hidden"
                             THEN pubTrace \o <<"hidden", "published">>
                             ELSE pubTrace
          /\ cause' = IF out = "hidden" THEN cause ELSE out
          /\ pc' = IF out = "hidden" THEN "pb_finally" ELSE "pb_except"
    /\ UNCHANGED <<frame, envVars, nested, loggedIn>>
    /\ UNCHANGED <<taskVars, cpSeen, stepResult, exitCode>>

\* lines 212-217
PubExcept ==
    /\ pc = "pb_except"
    /\ result' = Result("error", cause, -1)
    /\ pc' = "pb_finally"
    /\ UNCHANGED <<frame, envVars, cause, nested, loggedIn>>
    /\ UNCHANGED <<taskVars, traceVars>>

\* line 219
PubFinally == ClosePage("pb_finally", AfterStep("publish"))

\* ---------------------------------------------------------------------
\* V0Automation.view_app, lines 221-252
\* ---------------------------------------------------------------------
ViewNewPage == NewPage("vw_page", "vw_show")

\* lines 236-250: goto, keep the page open for wait_seconds
ViewShow ==
    /\ pc = "vw_show"
    /\ \E ok \in BOOLEAN :
          /\ result' = IF ok THEN Result("success", "", -1)
                              ELSE Result("error", "Exception", -1)
          /\ cause' = IF ok THEN cause ELSE "Exception"
    /\ pc' = "vw_finally"
    /\ UNCHANGED <<frame, envVars, nested, loggedIn>>
    /\ UNCHANGED <<taskVars, traceVars>>

\* line 252
ViewFinally == ClosePage("vw_finally", AfterStep("view"))

\* ---------------------------------------------------------------------
\* v0_deploy, lines 363-425
\* ---------------------------------------------------------------------
\* a workflow that goes on to publish whatever the pull returned
V0DeployAfterPullGoesOn ==
    /\ pc = "dp_pull"
    /\ nested' = [nested EXCEPT !.pull = result.status]
    /\ pc' = "pb_page"
    /\ UNCHANGED <<frame, result, envVars, cause, loggedIn>>
    /\ UNCHANGED <<taskVars, traceVars>>

\* lines 389-394: a pull that did not succeed ends the deployment
V0DeployAfterPull ==
    /\ pc = "dp_pull"
    /\ nested' = [nested EXCEPT !.pull = result.status]
    /\ pc' = IF result.status # "success" THEN "v0_close" ELSE "pb_page"
    /\ stepResult' = IF result.status # "success" THEN result ELSE stepResult
    /\ UNCHANGED <<frame, result, envVars, cause, loggedIn>>
    /\ UNCHANGED <<taskVars, cpSeen, pubTrace, exitCode>>

\* a workflow that finishes whatever the publish step returned
V0DeployAfterPublishGoesOn ==
    /\ pc = "dp_publish"
    /\ nested' = [nested EXCEPT !.publish = result.status]
    /\ pc' = IF viewArg THEN "vw_page" ELSE "dp_finish"
    /\ UNCHANGED <<frame, result, envVars, cause, loggedIn>>
    /\ UNCHANGED <<taskVars, traceVars>>

\* lines 398-409: the same for publish; then the optional view
V0DeployAfterPublish ==
    /\ pc = "dp_publish"
    /\ nested' = [nested EXCEPT !.publish = result.status]
    /\ pc' = IF result.status # "success" THEN "v0_close"
              ELSE IF viewArg THEN "vw_page" ELSE "dp_finish"
    /\ stepResult' = IF result.status # "success" THEN result ELSE stepResult
    /\ UNCHANGED <<frame, result, envVars, cause, loggedIn>>
    /\ UNCHANGED <<taskVars, cpSeen, pubTrace, exitCode>>

\* line 409: view_result is kept, its status is not looked at
V0DeployAfterView ==
    /\ pc = "dp_view"
    /\ nested' = [nested EXCEPT !.view = result.status]
    /\ pc' = "dp_finish"
    /\ UNCHANGED <<frame, result, envVars, cause, loggedIn>>
    /\ UNCHANGED <<taskVars, traceVars>>

\* lines 411-421: close, then the combined result
V0DeployFinish ==
    /\ pc = "dp_finish"
    /\ session' = Closed
    /\ \E ok \in BOOLEAN :
          /\ result' = IF ok THEN Result("success", "", -1) ELSE result
          /\ cause' = IF ok THEN cause ELSE "Exception"
          /\ pc' = IF ok THEN "ct_return" ELSE "v0_except"
    /\ UNCHANGED <<frame, auth, nested, loggedIn>>
    /\ UNCHANGED <<taskVars, traceVars>>

\* ---------------------------------------------------------------------
\* V0Automation.login_v0, lines 65-117
\* ---------------------------------------------------------------------
\* lines 77-83: launch, new_context, new_page, goto
V0LoginLaunch ==
    /\ pc = "vl_launch"
    /\ \E ok \in BOOLEAN :
          /\ session' = IF ok THEN [browser |-> TRUE, context |-> TRUE,
                                    pages |-> 1]
                              ELSE Closed
          /\ cause' = IF ok THEN cause ELSE "Exception"
          /\ pc' = IF ok THEN "vl_wait" ELSE "vl_except"
    /\ UNCHANGED <<frame, result, auth, nested, loggedIn>>
    /\ UNCHANGED <<taskVars, traceVars>>

\* line 91: wait two minutes for the 'Projects' link
V0LoginAwait ==
    /\ pc = "vl_wait"
    /\ \E out \in {"visible", "Timeout: Projects", "Exception"} :
          /\ loggedIn' = (out = "visible")
          /\ cause' = IF out = "visible" THEN cause ELSE out
          /\ pc' = CASE out = "visible" -> "vl_save"
                      [] out = "Exception" -> "vl_except"
                      [] OTHER -> "vl_timeout"
    /\ UNCHANGED <<frame, result, envVars, nested>>
    /\ UNCHANGED <<taskVars, traceVars>>

\* lines 92-103: save the state, close the browser, report success
V0LoginSave ==
    /\ pc = "vl_save"
    /\ \E ok \in BOOLEAN :
          /\ auth' = IF ok THEN [auth EXCEPT !.v0 = TRUE] ELSE auth
          /\ result' = IF ok THEN Result("success", "", -1) ELSE result
          /\ session' = IF ok THEN Closed ELSE session
          /\ cause' = IF ok THEN cause ELSE "Exception"
          /\ pc' = IF ok THEN "ct_return" ELSE "vl_except"
    /\ UNCHANGED <<frame, nested, loggedIn>>
    /\ UNCHANGED <<taskVars, traceVars>>

\* lines 105-110: except TimeoutError
V0LoginTimeout ==
    /\ pc = "vl_timeout"
    /\ session' = Closed
    /\ result' = Result("error", "Login was not completed", -1)
    /\ pc' = "ct_return"
    /\ UNCHANGED <<frame, auth, cause, nested, loggedIn>>
    /\ UNCHANGED <<taskVars, traceVars>>

\* lines 112-117: except Exception, around the `async with` block
V0LoginExcept ==
    /\ pc = "vl_except"
    /\ session' = Closed
    /\ result' = Result("error", cause, -1)
    /\ pc' = "ct_return"
    /\ UNCHANGED <<frame, auth, cause, nested, loggedIn>>
    /\ UNCHANGED <<taskVars, traceVars>>

\* ---------------------------------------------------------------------
\* cli.py cmd_create_project and
\* AIStudioAutomation.create_project_and_send_prompt (automation.py 117-291)
\* ---------------------------------------------------------------------
\* what page.url may show when it is read
Urls == {"temp", "drive"}

\* what is_visible answers: the text is there, is not, or the call raised
Visibility == {"visible", "hidden", "raised"}

\* cli.py 88 and 183: the exit code a command makes of its result
ExitCode(r) == IF r.status = "success" THEN 0 ELSE 1

\* cli.py 58-80: the command reads the prompt file and starts the workflow;
\* a missing file ends it with exit code 1 (64-67)
CliCreateProject ==
    /\ pc = "idle"
    /\ tool' = "cli_create_project"
    /\ \E fileOk \in BOOLEAN :
          /\ pc' = IF fileOk THEN "cp_setup" ELSE "returned"
          /\ exitCode' = IF fileOk THEN exitCode ELSE 1
    /\ UNCHANGED <<result, escaped, pollVars, envVars, flowVars, cpVars>>
    /\ UNCHANGED <<taskVars, cpSeen, stepResult, pubTrace>>

\* automation.py 145-221: login if needed, open the apps page, dismiss the
\* dialogs, fill the prompt, click Build, wait for the temp project, then
\* start_time = now
CpSetup ==
    /\ pc = "cp_setup"
    /\ \E out \in {"ok", "Authentication timeout", "Exception"} :
          /\ result' = IF out = "Authentication timeout"
                           THEN Result("error", out, -1) ELSE result
          /\ cause' = IF out = "Exception" THEN out ELSE cause
          /\ pc' = CASE out = "ok" -> "cp_head"
                      [] out = "Exception" -> "cp_except"
                      [] OTHER -> "cli_return"
    /\ \E opened \in BOOLEAN :
          /\ pc' = "cp_head" => opened
          /\ session' = IF opened THEN [browser |-> FALSE, context |-> TRUE,
                                        pages |-> 1]
                                  ELSE session
    /\ cpStart' = clock
    /\ UNCHANGED <<tool, escaped, viewArg, loopVars, clock, url, cpExit,
                   auth, nested, loggedIn>>
    /\ UNCHANGED <<taskVars, traceVars>>

\* line 223: the while condition
CpLoopTest ==
    /\ pc = "cp_head"
    /\ IF clock - cpStart < CREATE_MAX_WAIT
          THEN /\ pc' = "cp_iter"
               /\ cpExit' = cpExit
          ELSE /\ pc' = "cp_after"
               /\ cpExit' = "expired"
    /\ UNCHANGED <<tool, escaped, viewArg, pollVars, cpStart, url, result,
                   envVars, cause, nested, loggedIn>>
    /\ UNCHANGED <<taskVars, traceVars>>

\* an iteration that looks at the URL before it looks for the error text
CpVerdictUrlFirst(u, err, fin) ==
    IF u = "drive" THEN "completed"
    ELSE IF err = "visible" THEN "error"
    ELSE IF fin = "visible" THEN "finished"
    ELSE "waiting"

\* lines 224-258: what one iteration makes of what it sees.  The error
\* text is looked at first, then the URL, then the 'Finished' text; an
\* is_visible that raises counts as not visible.
CpVerdict(u, err, fin) ==
    IF err = "visible" THEN "error"
    ELSE IF u = "drive" THEN "completed"
    ELSE IF fin = "visible" THEN "finished"
    ELSE "waiting"

\* lines 224-258: one iteration of the create-project loop
CpIterate ==
    /\ pc = "cp_iter"
    /\ \E u \in Urls, err \in Visibility, fin \in Visibility,
          lag \in 0..MaxLag :
          LET v == CpVerdict(u, err, fin) IN
          /\ url' = u
          /\ result' = IF v = "error"
                          THEN Result("error", "AIStudio internal error", -1)
                          ELSE result
          /\ clock' = CASE v = "finished" -> Sleep(FINISHED_SETTLE_SLEEP, lag)
                         [] v = "waiting" -> Sleep(CREATE_POLL_SLEEP, lag)
                         [] OTHER -> clock
          /\ cpExit' = CASE v = "error" -> "error"
                          [] v = "waiting" -> cpExit
                          [] OTHER -> "completed"
          /\ pc' = CASE v = "error" -> "cli_return"
                      [] v = "waiting" -> "cp_head"
                      [] OTHER -> "cp_after"
          /\ cpSeen' = [err |-> err = "visible",
                        done |-> u = "drive" \/ fin = "visible"]
    /\ UNCHANGED <<tool, escaped, viewArg, loopVars, cpStart, envVars,
                   cause, nested, loggedIn>>
    /\ UNCHANGED <<taskVars, stepResult, pubTrace, exitCode>>

\* an ending that reports an expired wait as a timeout
CpAfterChecksExpiry ==
    /\ pc = "cp_after"
    /\ \E u \in Urls : url' = u
    /\ result' = IF cpExit = "expired"
                    THEN Result("timeout", "did not complete", -1)
                    ELSE Result("success", "", -1)
    /\ pc' = "cli_return"
    /\ UNCHANGED <<tool, escaped, viewArg, pollVars, cpStart, cpExit,
                   envVars, cause, nested, loggedIn>>
    /\ UNCHANGED <<taskVars, traceVars>>

\* lines 260-284: read the URL again, rename if asked, report success
CpAfter ==
    /\ pc = "cp_after"
    /\ \E u \in Urls : url' = u
    /\ result' = Result("success", "", -1)
    /\ pc' = "cli_return"
    /\ UNCHANGED <<tool, escaped, viewArg, pollVars, cpStart, cpExit,
                   envVars, cause, nested, loggedIn>>
    /\ UNCHANGED <<taskVars, traceVars>>

\* lines 286-291
CpExcept ==
    /\ pc = "cp_except"
    /\ result' = Result("error", cause, -1)
    /\ pc' = "cli_return"
    /\ UNCHANGED <<frame, envVars, cause, nested, loggedIn>>
    /\ UNCHANGED <<taskVars, traceVars>>

\* cli.py 81-88: print the result, pick the exit code
CliCreateReturn ==
    /\ pc = "cli_return"
    /\ exitCode' = ExitCode(result)
    /\ pc' = "returned"
    /\ UNCHANGED <<frame, result, envVars, cause, nested, loggedIn>>
    /\ UNCHANGED <<taskVars, cpSeen, stepResult, pubTrace>>

\* ---------------------------------------------------------------------
\* cli.py cmd_wait_implementation, lines 160-189.  Lines 167-181 are those
\* of the server's wait branch (WaitToolOpen, the poll loop, WaitToolClose).
\* ---------------------------------------------------------------------
\* cli.py 160-165 and 304: the command starts with --timeout, an integer
CliWaitImplementation ==
    /\ pc = "idle"
    /\ tool' = "cli_wait"
    /\ \E t \in TimeoutValues : timeout_seconds' = t
    /\ pc' = "wt_open"
    /\ UNCHANGED <<result, escaped, clock, start_time, elapsed, probes,
                   raisedAt, lastProbe, waitExit, inFlight, suspends, again,
                   envVars, flowVars, cpVars>>
    /\ UNCHANGED <<taskVars, traceVars>>

\* cli.py 182-183: print the result, pick the exit code
CliWaitReturn ==
    /\ pc = "ct_return"
    /\ tool = "cli_wait"
    /\ exitCode' = ExitCode(result)
    /\ pc' = "returned"
    /\ UNCHANGED <<frame, result, envVars, cause, nested, loggedIn>>
    /\ UNCHANGED <<taskVars, cpSeen, stepResult, pubTrace>>

\* cli.py 185-189: except Exception
CliWaitExcept ==
    /\ pc = "ct_except"
    /\ tool = "cli_wait"
    /\ result' = Result("error", cause, -1)
    /\ exitCode' = 1
    /\ pc' = "returned"
    /\ UNCHANGED <<frame, envVars, cause, nested, loggedIn>>
    /\ UNCHANGED <<taskVars, cpSeen, stepResult, pubTrace>>

\* the server takes the next request
NextRequest ==
    /\ pc \in {"returned", "cancelled"}
    /\ pc' = "idle"
    /\ tool' = "none"
    /\ result' = NoResult
    /\ escaped' = FALSE
    /\ clock' = 0
    /\ start_time' = 0
    /\ elapsed' = 0
    /\ timeout_seconds' = 0
    /\ probes' = 0
    /\ raisedAt' = 0
    /\ lastProbe' = -1
    /\ waitExit' = "none"
    /\ inFlight' = 0
    /\ suspends' = 0
    /\ again' = FALSE
    /\ session' = Closed
    /\ cause' = "none"
    /\ nested' = NoNested
    /\ loggedIn' = FALSE
    /\ viewArg' = FALSE
    /\ cpStart' = 0
    /\ url' = "temp"
    /\ cpExit' = "none"
    /\ cpSeen' = NoSight
    /\ stepResult' = NoResult
    /\ pubTrace' = <<>>
    /\ exitCode' = -1
    /\ UNCHANGED auth
    /\ UNCHANGED taskVars

\* server.py 646-660: the client calls the wait tool again as soon as a wait
\* has returned.  A new AIStudioAutomation and a new call of
\* wait_for_gemini_implementation are made (656-660); what the first call
\* left in start_time and elapsed is still in the state, so that a loop
\* reading it before writing it would show.
WaitAgain ==
    /\ pc = "returned"
    /\ tool = "aistudio_wait_for_implementation"
    /\ waitExit = "returned"
    /\ again' = TRUE
    /\ \E t \in TimeoutValues : timeout_seconds' = t
    /\ result' = NoResult
    /\ clock' = 0
    /\ probes' = 0
    /\ raisedAt' = 0
    /\ lastProbe' = -1
    /\ waitExit' = "none"
    /\ inFlight' = 0
    /\ suspends' = 0
    /\ session' = Closed
    /\ cause' = "none"
    /\ pc' = "wt_open"
    /\ UNCHANGED <<tool, escaped, start_time, elapsed, auth, nested,
                   loggedIn, viewArg, cpVars>>
    /\ UNCHANGED <<taskVars, traceVars>>

\* a request arrives
Request ==
    \/ WaitAgain
    \/ AIStudioCallTool
    \/ V0CallTool
    \/ CliCreateProject
    \/ CliWaitImplementation

\* the running call takes its next step
Step ==
    \/ LoginLaunch
    \/ LoginAwaitAuth
    \/ LoginSaveState
    \/ LoginClose
    \/ RepoAuthCheck
    \/ RepoOpen
    \/ RepoFillForm
    \/ RepoClose
    \/ RepoExcept
    \/ DeployOpen
    \/ DeployCommit
    \/ DeployCloudRun
    \/ DeployClose
    \/ DeployExcept
    \/ CloneRun
    \/ WaitToolOpen
    \/ InitialWait
    \/ LoopTest
    \/ ProbeIssued
    \/ ProbeDone
    \/ ProbeProcessing
    \/ ProbeRaises
    \/ RetrySleep
    \/ ExceptSleep
    \/ TimeoutReturn
    \/ WaitToolClose
    \/ CallToolReturn
    \/ CallToolExcept
    \/ V0CallToolReturn
    \/ V0CallToolExcept
    \/ V0AuthCheck
    \/ V0Launch
    \/ V0Close
    \/ V0Except
    \/ PullNewPage
    \/ PullNavigate
    \/ PullClick
    \/ PullWaitSync
    \/ PullExcept
    \/ PullFinally
    \/ PubNewPage
    \/ PubNavigate
    \/ PubOpenDropdown
    \/ PubChoose
    \/ PubClickPublish
    \/ PubWaitHidden
    \/ PubExcept
    \/ PubFinally
    \/ ViewNewPage
    \/ ViewShow
    \/ ViewFinally
    \/ V0DeployAfterPull
    \/ V0DeployAfterPublish
    \/ V0DeployAfterView
    \/ V0DeployFinish
    \/ V0LoginLaunch
    \/ V0LoginAwait
    \/ V0LoginSave
    \/ V0LoginTimeout
    \/ V0LoginExcept
    \/ CpSetup
    \/ CpLoopTest
    \/ CpIterate
    \/ CpAfter
    \/ CpExcept
    \/ CliCreateReturn
    \/ CliWaitReturn
    \/ CliWaitExcept

Next == Request \/ Step \/ NextRequest

Spec == Init /\ [][Next]_vars

\* a call that has started keeps running: the event loop resumes the
\* coroutine after every await that completes
FairSpec == Spec /\ WF_vars(Step)

\* the same server with a client that may cancel a running wait
NextWithCancel == Next \/ CancelWait

CancelSpec == Init /\ [][NextWithCancel]_vars /\ WF_vars(Step)

\* ---------------------------------------------------------------------
\* Several tool calls in progress at once.  call_tool is a coroutine; the
\* server starts one for every request, and each runs its tool's code with
\* its own local variables browser, context and page.
\* ---------------------------------------------------------------------
TaskTools == {"aistudio_login", "aistudio_wait_for_implementation",
              "v0_git_pull"}

\* server.py 601-604, v0 server.py 622-625: a call arrives for a free task
TaskCall(t) ==
    /\ task[t].at = "idle"
    /\ \E name \in TaskTools :
          task' = [task EXCEPT ![t] = [NoTask EXCEPT !.at = "launch",
                                                     !.name = name]]
    /\ UNCHANGED <<callVars, traceVars, usedBy>>

\* server.py 651-652, automation.py 83-90, v0 automation.py 285-287: the
\* call launches a browser of its own and gets a context of its own; a
\* launch that raises ends the call with an error result
TaskLaunch(t) ==
    /\ task[t].at = "launch"
    /\ \E ok \in BOOLEAN :
          task' = [task EXCEPT ![t] =
                      IF ok THEN [@ EXCEPT !.at = "context", !.context = t]
                            ELSE NoTask]
    /\ UNCHANGED <<callVars, traceVars, usedBy>>

\* a call that takes a page another call has open instead of a new one
TaskNewPageTakesOpenPage(t) ==
    /\ task[t].at = "context"
    /\ \E u \in Tasks :
          /\ u = t \/ task[u].page # 0
          /\ task' = [task EXCEPT ![t] =
                         [@ EXCEPT !.at = "page",
                                   !.page = IF u = t THEN t
                                                     ELSE task[u].page]]
    /\ UNCHANGED <<callVars, traceVars, usedBy>>

\* automation.py 91: login takes the first page of the persistent context
\* the call has just launched; every other tool opens a new page
PageGot(t) ==
    IF task[t].name = "aistudio_login" THEN task[t].context ELSE t

\* server.py 653, v0 automation.py 130: page = await context.new_page()
\* on the call's own context; automation.py 91: the first page of the
\* persistent context the call has just launched
TaskNewPage(t) ==
    /\ task[t].at = "context"
    /\ \E ok \in BOOLEAN :
          task' = [task EXCEPT ![t] =
                      IF ok THEN [@ EXCEPT !.at = "page",
                                           !.page = PageGot(t)]
                            ELSE NoTask]
    /\ UNCHANGED <<callVars, traceVars, usedBy>>

\* automation.py 673-674 (a probe), 95-106, v0 automation.py 133-142 (goto,
\* click, wait_for): the call acts on what its local variable page holds
TaskAct(t) ==
    /\ task[t].at \in {"page", "acting"}
    /\ usedBy' = [usedBy EXCEPT ![task[t].page] = @ \cup {t}]
    /\ task' = [task EXCEPT ![t].at = "acting"]
    /\ UNCHANGED <<callVars, traceVars>>

\* server.py 610-611, 662-663, v0 automation.py 157 and 291-293: the page
\* and the context are closed and the call returns
TaskClose(t) ==
    /\ task[t].at \in {"page", "acting"}
    /\ task' = [task EXCEPT ![t] = NoTask]
    /\ UNCHANGED <<callVars, traceVars, usedBy>>

TaskNext ==
    \E t \in Tasks :
        \/ TaskCall(t)
        \/ TaskLaunch(t)
        \/ TaskNewPage(t)
        \/ TaskAct(t)
        \/ TaskClose(t)

\* a call that has started keeps running, as in FairSpec
TaskSpec == Init /\ [][TaskNext]_vars /\ WF_vars(TaskNext)

\* =====================================================================
\* Properties
\* =====================================================================

\* wait_for_gemini_implementation has just handed its outcome to the caller
WaitReturned == pc = "wt_close" /\ waitExit = "returned"

C2_Terminates ==
    /\ (pc = "w_init") ~> WaitReturned
    /\ [][(waitExit = "returned" /\ pc # "returned") =>
            (/\ waitExit' = "returned"
             /\ probes' = probes
             /\ clock' = clock
             /\ (result' # result => pc = "ct_except"))]_vars

\* the first probe raised, the loop went on probing and ended by timeout
C2_Witness ==
    WaitReturned /\ result.status = "timeout" /\ raisedAt = 1 /\ probes >= 2

\* create_project_and_send_prompt has just built the result it returns
CreateReturned == pc = "cli_return" /\ tool = "cli_create_project"

StepReturned == pc \in {"gp_finally", "pb_finally"}

\* the wait for the indicator to disappear ran into its deadline
IndicatorWaitExpired ==
    cause \in {"Timeout: Syncing Changes", "Timeout: Publishing hidden"}

ServerTools ==
    AIStudioTools \cup V0Tools \cup {"unknown_tool", "unknown_v0_tool"}

\* C5 (as claimed): the status of every result a tool call returns is one
\* of success, timeout and error.
C5_StatusVocabulary ==
    (pc = "returned" /\ tool \in ServerTools) =>
        result.status \in {"success", "timeout", "error"}

C7_NoProbeErrorEscapes ==
    /\ waitExit # "raised"
    /\ (pc = "ct_except" /\ tool = "aistudio_wait_for_implementation") =>
          (probes = 0 \/ waitExit = "returned")

\* a probe raised and the loop still returned an outcome
C7_Witness == WaitReturned /\ raisedAt # 0 /\ probes = raisedAt

C9_DurationCountsInitialDelay ==
    (WaitReturned /\ result.status = "complete") =>
        result.duration >=
            GEMINI_IMPLEMENTATION_WAIT + (probes - 1) * VERIFICATION_RETRY_WAIT

\* C10 (as claimed): with a probe that is always pending the loop returns
\* Timeout, and both the time spent since the invocation began and the
\* reported duration are within one interval of the timeout (the time of
\* the last probe and the lag of the last suspend are granted on top).
C10_TimeoutWithinOneInterval ==
    (WaitReturned /\ result.status = "timeout" /\ raisedAt = 0) =>
        /\ clock <= timeout_seconds + VERIFICATION_RETRY_WAIT
                       + MaxProbeTime + MaxLag
        /\ clock >= timeout_seconds - VERIFICATION_RETRY_WAIT
        /\ result.duration <= timeout_seconds + VERIFICATION_RETRY_WAIT
        /\ result.duration >= timeout_seconds - VERIFICATION_RETRY_WAIT

\* C11 (as claimed): the timeout budget includes the initial delay.  With
\* a probe that is always pending the loop returns Timeout about
\* timeout_seconds after the invocation began, and the probe was invoked
\* about (timeout - initial_delay)/interval times (one more is granted),
\* not about timeout/interval times.
C11_BudgetIncludesInitialDelay ==
    (WaitReturned /\ result.status = "timeout" /\ raisedAt = 0) =>
        /\ clock <= timeout_seconds + VERIFICATION_RETRY_WAIT
                       + MaxProbeTime + MaxLag
        /\ probes * VERIFICATION_RETRY_WAIT <=
              (IF timeout_seconds > GEMINI_IMPLEMENTATION_WAIT
                  THEN timeout_seconds - GEMINI_IMPLEMENTATION_WAIT ELSE 0)
              + VERIFICATION_RETRY_WAIT

\* C12 (as claimed): a timeout_seconds below the initial wait is an invalid
\* configuration and is rejected before any suspend or probe: the call
\* never sleeps, never probes, never produces a poll outcome, and what it
\* returns is an error.
C12_InvalidConfigRejected ==
    (/\ tool = "aistudio_wait_for_implementation"
     /\ timeout_seconds < GEMINI_IMPLEMENTATION_WAIT) =>
        /\ clock = 0
        /\ probes = 0
        /\ waitExit = "none"
        /\ (pc = "returned" => result.status = "error")

\* C13: no probe of wait_for_gemini_implementation is issued before the
\* whole initial wait (90 s) has passed since the call began, so a
\* completion result is never returned earlier than 90 s after the call
\* and never without a probe.
C13_NoProbeBeforeInitialDelay ==
    /\ (pc = "w_probe" => clock >= GEMINI_IMPLEMENTATION_WAIT)
    /\ (probes > 0 => start_time + lastProbe >= GEMINI_IMPLEMENTATION_WAIT)
    /\ (result.status = "complete" =>
           (probes > 0 /\ clock >= GEMINI_IMPLEMENTATION_WAIT))

\* the page was done all along: the first probe, 90 s after the call, saw it
C13_Witness ==
    /\ WaitReturned
    /\ result.status = "complete"
    /\ probes = 1
    /\ start_time + lastProbe = GEMINI_IMPLEMENTATION_WAIT

\* C14 (as claimed): the poll loop supports cancellation.  A cancellation
\* delivered while the loop is suspended, or while a probe is in flight,
\* makes the invocation return a Timeout-shaped outcome; the call does not
\* end without an outcome.
C14_CancelReturnsTimeout ==
    waitExit = "cancelled" =>
        (result.status = "timeout" /\ pc # "cancelled")

\* C15 (as claimed): the storage-state file is written only by a login that
\* observed the authenticated page.  Whenever aistudio_login has just
\* written the file, and whenever the file changes at all, the signed-in
\* page was seen by this login; a login whose wait expired writes nothing.
C15_SavedOnlyWhenAuthenticated ==
    /\ (pc = "al_close" => loggedIn)
    /\ ((tool = "v0_login" /\ auth.v0 /\ result.status = "success")
           => loggedIn)
    /\ ((tool \in {"aistudio_login", "v0_login"} /\ ~loggedIn
         /\ pc = "returned") => result.status # "success")

\* positions of the publish step and of the view step
PublishPcs == {"pb_page", "pb_nav", "pb_menu", "pb_choose", "pb_click",
               "pb_wait", "pb_except", "pb_finally", "dp_publish"}

ViewPcs == {"vw_page", "vw_show", "vw_finally", "dp_view"}

\* C16: v0_deploy runs pull, publish, view in this order.  The publish step
\* runs only after the pull step returned status success, the view step
\* only after the publish step returned status success and only when view
\* was requested, and while the pull step runs nothing later has run.
C16_DeployStepOrder ==
    tool = "v0_deploy" =>
        /\ (pc \in PublishPcs => nested.pull = "success")
        /\ (nested.publish # "none" => nested.pull = "success")
        /\ (pc \in ViewPcs =>
               (nested.publish = "success" /\ nested.pull = "success"
                /\ viewArg))
        /\ (nested.view # "none" => (nested.publish = "success" /\ viewArg))
        /\ (nested.pull = "none" =>
               (nested.publish = "none" /\ nested.view = "none"
                /\ pc \notin PublishPcs \cup ViewPcs))
        /\ (nested.pull \notin {"none", "success"} =>
               (nested.publish = "none" /\ nested.view = "none"))

\* all three steps ran, in order, and the deployment is about to finish
C16_Witness ==
    /\ tool = "v0_deploy"
    /\ pc = "dp_finish"
    /\ viewArg
    /\ nested.pull = "success"
    /\ nested.publish = "success"
    /\ nested.view # "none"

\* the running tool needs a saved session and its state file is missing
SessionFileMissing ==
    \/ /\ tool \in {"aistudio_create_repo", "aistudio_commit_and_deploy",
                    "aistudio_wait_for_implementation"}
       /\ ~auth.aistudio
    \/ /\ tool \in {"v0_git_pull", "v0_publish", "v0_view_app", "v0_deploy"}
       /\ ~auth.v0

\* C17: a tool that needs the saved session and finds no state file does
\* nothing on the remote application (no context, no page, no step, no
\* probe, no wait) and returns status error with a message.
C17_NoSessionNoAction ==
    SessionFileMissing =>
        /\ ~session.context
        /\ session.pages = 0
        /\ nested = NoNested
        /\ probes = 0
        /\ clock = 0
        /\ waitExit = "none"
        /\ (pc = "returned" =>
               (result.status = "error" /\ result.error # ""))

\* commit_and_deploy has no check of its own: opening the context on the
\* missing file raised, and the tool returned an error
C17_Witness ==
    /\ tool = "aistudio_commit_and_deploy"
    /\ ~auth.aistudio
    /\ pc = "returned"
    /\ cause = "Exception"
    /\ result.status = "error"

\* C18: the probes of one invocation run one after the other.  At most one
\* probe is in flight, a probe is issued only when none is in flight, the
\* loop neither suspends nor returns while one is, and between two
\* consecutive probes the loop suspends exactly once.
C18_ProbesSequential ==
    /\ inFlight \in {0, 1}
    /\ (inFlight = 1 <=> pc = "w_flight")
    /\ (pc = "w_probe" =>
           (inFlight = 0 /\ (probes > 0 => suspends = 1)))
    /\ (pc \in {"w_retry", "w_except"} => suspends = 0)
    /\ suspends \in {0, 1}

\* the second probe is about to be issued, one suspend after the first
C18_Witness ==
    /\ pc = "w_probe"
    /\ probes = 1
    /\ suspends = 1
    /\ clock - (start_time + lastProbe) >= VERIFICATION_RETRY_WAIT

\* C19: the poll loop is single-shot.  Once an invocation has returned its
\* outcome it issues no probe and takes no suspend any more, and an
\* invocation that follows another starts afresh: its initial wait is
\* taken in full, start_time is read after it, elapsed is 0 at the first
\* deadline test and the probes are counted from 0.
C19_SingleShot ==
    /\ []((again /\ pc = "w_head" /\ probes = 0) =>
            /\ elapsed = 0
            /\ start_time = clock
            /\ clock >= GEMINI_IMPLEMENTATION_WAIT)
    /\ []((again /\ probes > 0) =>
            start_time + lastProbe >= GEMINI_IMPLEMENTATION_WAIT)
    /\ [][(waitExit = "returned" /\ waitExit' = "returned") =>
            (/\ probes' = probes
             /\ suspends' = suspends
             /\ clock' = clock
             /\ inFlight' = 0)]_vars

\* a second invocation took its own initial wait and completed on its own
\* first probe
C19_Witness ==
    /\ again
    /\ WaitReturned
    /\ result.status = "complete"
    /\ probes = 1
    /\ elapsed = 0
    /\ clock >= GEMINI_IMPLEMENTATION_WAIT

\* C21: with several tool calls in progress at once, every page a call acts
\* on was opened by that call: no call ever acts on a page of another call,
\* and no two calls hold the same page or the same context.
C21_PageOwnedByOneTask ==
    /\ \A p \in Tasks : usedBy[p] \subseteq {p}
    /\ \A t \in Tasks :
          /\ task[t].page \in {0, t}
          /\ task[t].context \in {0, t}
    /\ \A t, u \in Tasks :
          (t # u /\ task[t].page # 0) => task[u].page # task[t].page

\* two calls are acting at the same time, each on the page it opened
C21_Witness ==
    /\ task[1].at = "acting" /\ task[2].at = "acting"
    /\ task[1].name = "aistudio_wait_for_implementation"
    /\ task[2].name = "v0_git_pull"
    /\ usedBy[1] = {1} /\ usedBy[2] = {2}

\* C22: the probes of one invocation are bounded.  After every probe that
\* did not see completion, whether it answered or raised, the loop suspends
\* for the retry interval before the next probe, so the k-th probe is issued
\* at least (k-1) intervals after start_time and an invocation issues at
\* most ceil(timeout_seconds / interval) probes.
C22_ProbesBounded ==
    /\ (probes - 1) * VERIFICATION_RETRY_WAIT < timeout_seconds \/ probes = 0
    /\ (probes > 0 => lastProbe >= (probes - 1) * VERIFICATION_RETRY_WAIT)
    /\ ((pc = "w_probe" /\ probes > 0) =>
           clock - (start_time + lastProbe) >= VERIFICATION_RETRY_WAIT)

\* the bound is reached: three probes within a timeout of seven seconds,
\* one of which raised
C22_Witness ==
    /\ WaitReturned
    /\ result.status = "timeout"
    /\ raisedAt # 0
    /\ probes * VERIFICATION_RETRY_WAIT >= timeout_seconds
    /\ probes >= 3

\* v0_deploy has returned to call_tool
DeployReturned == tool = "v0_deploy" /\ pc \in {"ct_return", "returned"}

\* C23 (as claimed): v0_deploy returns status success only if the pull and
\* the publish step both returned status success, and when a step failed
\* it returns that step's result unchanged.
C23_FailedStepResultReturned ==
    DeployReturned =>
        /\ (result.status = "success" =>
               (nested.pull = "success" /\ nested.publish = "success"))
        /\ (stepResult # NoResult => result = stepResult)

\* C23 (amended): v0_deploy returns status success only if the pull and the
\* publish step both returned status success.  When a step returned another
\* status no later step runs, the context is closed, and v0_deploy returns
\* that step's result unchanged if the closing went through; if closing the
\* context or the browser raises, it returns the handler's error result
\* with the text of that exception instead.  It never returns success then.
C23_FailedStepEndsDeploy ==
    /\ [](DeployReturned =>
            /\ (result.status = "success" =>
                   (/\ nested.pull = "success"
                    /\ nested.publish = "success"
                    /\ stepResult = NoResult))
            /\ (stepResult # NoResult =>
                   (/\ result.status # "success"
                    /\ (result = stepResult
                           \/ result = Result("error", cause, -1)))))
    /\ []((tool = "v0_deploy" /\ stepResult # NoResult) =>
            /\ pc \in {"v0_close", "v0_except", "ct_return", "returned"}
            /\ stepResult.status # "success"
            /\ nested.view = "none"
            /\ (nested.publish = "none" \/ nested.pull = "success"))
    /\ [][(tool = "v0_deploy" /\ pc = "v0_close" /\ stepResult # NoResult) =>
            \/ (pc' = "ct_return" /\ result' = stepResult)
            \/ (pc' = "v0_except" /\ cause' = "Exception")]_vars
    /\ [][(tool = "v0_deploy" /\ pc = "v0_except") =>
            (result' = Result("error", cause, -1))]_vars

\* the pull step ran into its deadline, closing the context raised, and
\* what v0_deploy returned is the handler's result, not the step's
C23_Witness ==
    /\ tool = "v0_deploy"
    /\ pc = "returned"
    /\ stepResult = Result("error", "Timeout: Syncing Changes", -1)
    /\ nested.pull = "error"
    /\ nested.publish = "none"
    /\ result = Result("error", "Exception", -1)

\* C24 (as claimed): aistudio_commit_and_deploy returns status success only
\* if the commit step and the deployment step both returned status success,
\* and the deployment step is started only after a commit step that
\* succeeded.
C24_DeployOnlyAfterCommit ==
    tool = "aistudio_commit_and_deploy" =>
        /\ ((pc \in {"ct_return", "returned"} /\ result.status = "success")
               => (nested.commit = "success"
                   /\ nested.deployment = "success"))
        /\ (pc = "cd_deploy" => nested.commit = "success")
        /\ (nested.deployment # "none" => nested.commit = "success")

\* C25 (as claimed): the CLI wait command exits with code 0 exactly when
\* the implementation wait observed completion, and with code 1 when it
\* timed out or failed.
C25_ExitCodeTellsCompletion ==
    (tool = "cli_wait" /\ pc = "returned") =>
        /\ exitCode \in {0, 1}
        /\ (exitCode = 0 <=> result.status = "complete")
        /\ (result.status \in {"timeout", "error"} => exitCode = 1)

\* what publish_changes did last
PubLast == IF pubTrace = <<>> THEN "nothing" ELSE pubTrace[Len(pubTrace)]

\* C26: publish_changes builds the result 'Changes published successfully'
\* only after it clicked 'Publish Changes', saw 'Publishing...' become
\* visible and then saw it become hidden, in this order.  With only the
\* 'Update' button visible it returns success without any click, with
\* neither option visible it returns status error, and it returns success
\* in no other way.
C26_PublishedAfterIndicator ==
    /\ ("published" \in {pubTrace[i] : i \in DOMAIN pubTrace} =>
           pubTrace = <<"click", "visible", "hidden", "published">>)
    /\ (PubLast = "already" => pubTrace = <<"already">>)
    /\ (PubLast = "not found" => pubTrace = <<"not found">>)
    /\ (pc = "pb_finally" =>
           /\ (PubLast \in {"published", "already"} =>
                  result.status = "success")
           /\ (PubLast = "not found" => result.status = "error")
           /\ (result.status = "success" =>
                  PubLast \in {"published", "already"}))

\* the indicator came and went, and the publication is reported
C26_Witness ==
    /\ pc = "pb_finally"
    /\ pubTrace = <<"click", "visible", "hidden", "published">>
    /\ result.status = "success"

\* C27: in the create-project loop the error check comes first.  An
\* iteration at which the internal-error text is visible ends the function
\* with status error and without another iteration, also when the URL
\* shows /apps/drive/ or 'Finished' is visible at that iteration; the loop
\* is left as completed only by an iteration that saw no error text.
C27_ErrorCheckFirst ==
    /\ [](tool = "cli_create_project" =>
            /\ (cpSeen.err =>
                   (/\ result.status = "error"
                    /\ cpExit = "error"
                    /\ pc \in {"cli_return", "returned"}))
            /\ (cpExit = "completed" => (~cpSeen.err /\ cpSeen.done))
            /\ (cpExit = "error" => cpSeen.err))
    /\ [][(tool = "cli_create_project" /\ cpSeen.err /\ pc # "returned") =>
              (clock' = clock /\ cpSeen' = cpSeen /\ result' = result)]_vars

\* the error text and the permanent URL showed at the same iteration
C27_Witness ==
    /\ pc = "cli_return"
    /\ tool = "cli_create_project"
    /\ cpSeen = [err |-> TRUE, done |-> TRUE]
    /\ url = "drive"
    /\ result.status = "error"

\* positions inside a step function, between new_page and the finally clause
InStepPcs == {"gp_nav", "gp_click", "gp_sync", "gp_except", "gp_finally",
              "pb_nav", "pb_menu", "pb_choose", "pb_click", "pb_wait",
              "pb_except", "pb_finally", "vw_show", "vw_finally"}

\* positions of the caller right after a step function returned
AfterStepPcs == {"dp_pull", "dp_publish", "dp_view", "dp_finish", "v0_close"}

\* C28: git_pull_changes, publish_changes and view_app close the page they
\* opened on every exit path.  While one of them runs exactly its one page
\* is open; every path (success, error result, caught exception) goes
\* through the finally clause, which closes the page; and once the function
\* has returned the context has as many open pages as before the call,
\* none.
C28_StepClosesItsPage ==
    /\ [](pc \in InStepPcs => (session.pages = 1 /\ session.context))
    /\ [](pc \in AfterStepPcs => (session.pages = 0 /\ session.context))
    /\ [][(pc \in {"gp_finally", "pb_finally", "vw_finally"}) =>
            ((pc' \in AfterStepPcs /\ session'.pages = session.pages - 1)
               \/ pc' = "v0_except")]_vars
    /\ [][(pc \in InStepPcs /\ pc' \notin InStepPcs) =>
            pc \in {"gp_finally", "pb_finally", "vw_finally"}]_vars

\* in a deployment the publish step caught an exception, and its page is
\* closed like that of the pull step before it
C28_Witness ==
    /\ tool = "v0_deploy"
    /\ pc = "dp_publish"
    /\ result.status = "error"
    /\ cause = "Exception"
    /\ session.pages = 0
    /\ session.context

\* C29: v0_deploy never returns with its browser open.  On the three
\* return paths (pull failed, publish failed, full success) the context and
\* the browser it launched are open until the closing statements and are
\* closed by them before the result is returned; a path that leaves through
\* the exception handler has the browser stopped as well.
C29_DeployClosesBrowser ==
    /\ [](DeployReturned => session = Closed)
    /\ []((tool = "v0_deploy" /\ pc \in {"v0_close", "dp_finish"}) =>
            (session.browser /\ session.context))
    /\ [][(tool = "v0_deploy" /\ pc \in {"v0_close", "dp_finish", "v0_except"})
            => (session' = Closed
                /\ pc' \in {"ct_return", "v0_except"})]_vars

\* the publish step failed after a successful pull: the browser was closed
\* and the step's result is being returned
C29_Witness ==
    /\ tool = "v0_deploy"
    /\ pc = "ct_return"
    /\ nested.pull = "success"
    /\ nested.publish = "error"
    /\ result = stepResult
    /\ session = Closed

====
